---------------------------- MODULE Spec2Model ----------------------------
(***************************************************************************)
(* Paperboy 3D: the simulation state of Game (game.js), Player (player.js),*)
(* Controls (controls.js), UI (ui.js) and the generated world              *)
(* (world/blocks.js, world/houses.js, world/obstacles.js).                 *)
(*                                                                         *)
(* Numbers.  Lengths are integers in thousandths of a world unit (the      *)
(* player's speed 0.10 is 100), times are integers in tenths of a second   *)
(* (the 2 s of invincibility are 20).  Arithmetic is exact: the rounding   *)
(* of IEEE doubles is not modelled.  The one irrational number of the      *)
(* program, sin(pi/4) * 0.5 = 0.35355..., is rounded to 354.               *)
(*                                                                         *)
(* Rendering (meshes, camera, lights, blinking, the text of the score      *)
(* read-outs) is left out: it reads the simulation state and never writes  *)
(* it.                                                                     *)
(***************************************************************************)
EXTENDS Integers, Sequences, FiniteSets, TLC

VARIABLES
    isActive,     \* Game.isActive
    score,        \* Game.score
    papers,       \* Game.papers
    lives,        \* Game.lives
    gameTime,     \* Game.gameTime
    obstacles,    \* Game.obstacles  (sequence of records)
    mailboxes,    \* Game.mailboxes
    porches,      \* Game.porches
    newspapers,   \* Game.newspapers
    player,       \* Game.player
    keys,         \* Controls.keys
    ui            \* UI: the elements the document has, the outcome of the
                  \* constructor, the display state of the start and
                  \* game-over screens, the final score text

vars == <<isActive, score, papers, lives, gameTime, obstacles, mailboxes,
          porches, newspapers, player, keys, ui>>

world == <<obstacles, mailboxes, porches>>

---------------------------------------------------------------------------
(* Program constants, in the module's units.                               *)

StartPapers == 100
StartLives == 3
MailboxPoints == 20
PorchPoints == 10
HitPenalty == 5
PaperTimeout == 300
RoadLimit == 15000
Gravity == 10
InvincibleDuration == 20
PlayerWidth == 1000
PlayerDepth == 1500
PlayerSpeed == 100
JumpSpeed == 200
PlayerHeight == 1000
PaperGravity == 15
PaperLift == 200
MailboxReach == 750
MailboxSlotY == 1200
MailboxReachY == 1000
PorchTopY == 500
PorchRestY == 200
GroundY == 50
BlockLength == 30000
BlockWidth == 20000
StreetWidth == 10000
HouseWidth == 6000
HouseLength == 8000
PorchLength == 3000

(* Bounds of the model.                                                    *)
ModelledBlocks == 4
MaxTime == 90
MaxRideTime == 1520
MaxFlightTime == 330
MaxListed == 1
MaxBurstTime == 132
MaxHillTime == 1400

\* The ids that the UI constructor looks up.
ElementIds ==
    {"score", "papers", "lives", "start-screen", "start-button", "game-over",
     "final-score", "restart-button"}

Keys == {"ArrowUp", "ArrowDown", "ArrowLeft", "ArrowRight", "w", "a", "s", "d", " "}

Abs(n) == IF n < 0 THEN -n ELSE n
Max(a, b) == IF a > b THEN a ELSE b
Min(a, b) == IF a < b THEN a ELSE b

RECURSIVE SumSeq(_)
SumSeq(s) == IF s = <<>> THEN 0 ELSE Head(s) + SumSeq(Tail(s))

RECURSIVE Flatten(_)
Flatten(ss) == IF ss = <<>> THEN <<>> ELSE Head(ss) \o Flatten(Tail(ss))

---------------------------------------------------------------------------
(* World generation.                                                       *)

\* createHousesBlock: four houses on each side, house i at
\* z = (houseSpacing + zOffset) + i * (houseLength + houseSpacing), where
\* houseSpacing = (blockLength - 4 * houseLength) / 5 = -0.4 and zOffset = 4.
HouseSpacing == (BlockLength - HouseLength * 4) \div 5

HouseZ(i) == (HouseSpacing + 4000) + i * (HouseLength + HouseSpacing)

LeftHouseX == -(BlockWidth \div 2) - 6000
RightHouseX == (BlockWidth \div 2) + 6000
BaseLength == HouseLength - 3000

\* createBlock: block.position.z
BlockZ(blockIndex) == blockIndex * (BlockLength + StreetWidth)

\* createMailbox, called by createHouse with
\* mailboxX = x +- baseWidth/2 and mailboxZ = z +- baseLength/2.
Mailbox(blockIndex, i, isLeftSide) ==
    [x |-> IF isLeftSide THEN LeftHouseX + HouseWidth \div 2
                         ELSE RightHouseX - HouseWidth \div 2,
     z |-> BlockZ(blockIndex)
           + (IF isLeftSide THEN HouseZ(i) + BaseLength \div 2
                            ELSE HouseZ(i) - BaseLength \div 2)]

\* createHouse: the porch record registered for delivery.
Porch(blockIndex, i, isLeftSide) ==
    [x |-> IF isLeftSide THEN LeftHouseX ELSE RightHouseX,
     z |-> BlockZ(blockIndex)
           + (IF isLeftSide THEN HouseZ(i) + BaseLength \div 2 + 1000
                            ELSE HouseZ(i) - BaseLength \div 2 - 1000),
     width |-> HouseWidth,
     length |-> PorchLength]

HouseMailboxes(blockIndex) ==
    Flatten([i \in 1..4 |-> << Mailbox(blockIndex, i - 1, TRUE),
                               Mailbox(blockIndex, i - 1, FALSE) >>])

HousePorches(blockIndex) ==
    Flatten([i \in 1..4 |-> << Porch(blockIndex, i - 1, TRUE),
                               Porch(blockIndex, i - 1, FALSE) >>])

\* createCar and createDrain: the obstacle records of addObstacles.
Car(blockIndex, x, z) ==
    [x |-> x, z |-> z + BlockZ(blockIndex), width |-> 2000, depth |-> 4000,
     type |-> "car"]

Drain(blockIndex, x, z) ==
    [x |-> x, z |-> z + BlockZ(blockIndex), width |-> 1000, depth |-> 1000,
     type |-> "drain"]

\* createStopSign: the obstacle record of the sign at corner (i, j) of the
\* cross-street, which lies at z = -streetWidth/2 of its block.
StopSign(blockIndex, i, j) ==
    [x |-> (BlockWidth \div 2) * i,
     z |-> -(StreetWidth \div 2) + 4000 * j + BlockZ(blockIndex),
     width |-> 300, depth |-> 300, type |-> "sign"]

\* createHill: the record of hill i of a park, of the width drawn for it.
Hill(blockIndex, i, width) ==
    [x |-> IF i % 2 = 0 THEN 2000 ELSE -2000,
     z |-> BlockLength \div 4 + i * (BlockLength \div 3) + BlockZ(blockIndex),
     width |-> width, depth |-> width, type |-> "hill"]

\* createTree, createBench, createPond: their obstacle records.
Tree(blockIndex, x, z) ==
    [x |-> x, z |-> z + BlockZ(blockIndex), width |-> 1000, depth |-> 1000,
     type |-> "tree"]

Bench(blockIndex, i) ==
    [x |-> (IF i % 2 = 0 THEN 1 ELSE -1) * (BlockWidth \div 2 - 2000),
     z |-> BlockLength \div 4 + i * (BlockLength \div 3) + BlockZ(blockIndex),
     width |-> 2000, depth |-> 700, type |-> "bench"]

Pond(blockIndex, x, z, pondSize) ==
    [x |-> x, z |-> z + BlockZ(blockIndex), width |-> pondSize,
     depth |-> pondSize, type |-> "pond"]

\* The outcomes of Math.random() in addObstacles, addStreetProps and
\* createPark that the model draws from: two cars with x in (-8, 8) and z in
\* [0, 30), three drains with x in (-10, 10) and z in [10 i, 10 i + 5), the
\* corners of a cross-street that get a stop sign, three hill widths in
\* [2.5, 5.5), the trees (of twelve candidates) that fall off the path,
\* |x| > 5, and the pond, if there is one, with x in (-5, 5), z in (10, 20)
\* and a size in [3, 5).  Every block of one world draws the same outcomes.
Layouts ==
    { [cars   |-> << <<500, 1000>>, <<-6000, 20000>> >>,
       drains |-> << <<0, 500>>, <<5000, 12000>>, <<0, 24000>> >>,
       signs  |-> << <<-1, -1>>, <<1, 1>> >>,
       hills  |-> << 2500, 2500, 2500 >>,
       trees  |-> << <<-12000, 3000>>, <<9000, 21000>> >>,
       pond   |-> << >>],
      [cars   |-> << <<0, 4000>>, <<-6000, 20000>> >>,
       drains |-> << <<-800, 500>>, <<5000, 12000>>, <<0, 24000>> >>,
       signs  |-> << >>,
       hills  |-> << 5400, 3000, 4000 >>,
       trees  |-> << <<-6000, 1000>>, <<7000, 8000>>, <<-15000, 16000>>,
                     <<14000, 22000>>, <<6000, 29000>> >>,
       pond   |-> << <<-3000, 12000, 3000>> >>],
      [cars   |-> << <<7000, 9000>>, <<-7000, 25000>> >>,
       drains |-> << <<-9000, 4000>>, <<9000, 14000>>, <<-9000, 22000>> >>,
       signs  |-> << <<-1, 1>>, <<1, -1>>, <<1, 1>> >>,
       hills  |-> << 5000, 4500, 3000 >>,
       trees  |-> << <<-8000, 5000>>, <<10000, 13000>>, <<-17000, 26000>> >>,
       pond   |-> << <<0, 17000, 4900>> >>] }

\* addObstacles
HouseObstacles(blockIndex, layout) ==
    [i \in 1..2 |-> Car(blockIndex, layout.cars[i][1], layout.cars[i][2])]
    \o [i \in 1..3 |-> Drain(blockIndex, layout.drains[i][1], layout.drains[i][2])]

\* addStreetProps: the stop signs of the cross-street that createBlock adds
\* to every block but the first.
CrossStreetObstacles(blockIndex, layout) ==
    IF blockIndex > 0
    THEN [k \in 1..Len(layout.signs) |->
             StopSign(blockIndex, layout.signs[k][1], layout.signs[k][2])]
    ELSE << >>

\* createPark: hills, trees, benches and the pond, in this order.
ParkObstacles(blockIndex, layout) ==
    [i \in 1..3 |-> Hill(blockIndex, i - 1, layout.hills[i])]
    \o [k \in 1..Len(layout.trees) |->
           Tree(blockIndex, layout.trees[k][1], layout.trees[k][2])]
    \o [i \in 1..3 |-> Bench(blockIndex, i - 1)]
    \o [k \in 1..Len(layout.pond) |->
           Pond(blockIndex, layout.pond[k][1], layout.pond[k][2],
                layout.pond[k][3])]

\* generateWorld: "const isPark = i > 0 && i % 3 === 0".
IsPark(blockIndex) == blockIndex > 0 /\ blockIndex % 3 = 0

\* WorldGenerator.createBlock: what block blockIndex adds to the three lists.
BlockObstacles(blockIndex, layout) ==
    (IF IsPark(blockIndex) THEN ParkObstacles(blockIndex, layout)
                           ELSE HouseObstacles(blockIndex, layout))
    \o CrossStreetObstacles(blockIndex, layout)

BlockMailboxes(blockIndex) ==
    IF IsPark(blockIndex) THEN << >> ELSE HouseMailboxes(blockIndex)

BlockPorches(blockIndex) ==
    IF IsPark(blockIndex) THEN << >> ELSE HousePorches(blockIndex)

\* generateWorld with the stop signs registered in the mailboxes list (a
\* faulty variant, against which C18 is tested).
GenerateWorldSignsAsMailboxes(layout) ==
    [obstacles |-> Flatten([b \in 1..ModelledBlocks |-> BlockObstacles(b - 1, layout)]),
     mailboxes |-> Flatten([b \in 1..ModelledBlocks |->
                       BlockMailboxes(b - 1)
                       \o [k \in 1..Len(CrossStreetObstacles(b - 1, layout)) |->
                              [x |-> CrossStreetObstacles(b - 1, layout)[k].x,
                               z |-> CrossStreetObstacles(b - 1, layout)[k].z]]]),
     porches   |-> Flatten([b \in 1..ModelledBlocks |-> BlockPorches(b - 1)])]

\* WorldGenerator.generateWorld, for the first ModelledBlocks blocks of the
\* twenty (block 3 is the first park).
GenerateWorld(layout) ==
    [obstacles |-> Flatten([b \in 1..ModelledBlocks |-> BlockObstacles(b - 1, layout)]),
     mailboxes |-> Flatten([b \in 1..ModelledBlocks |-> BlockMailboxes(b - 1)]),
     porches   |-> Flatten([b \in 1..ModelledBlocks |-> BlockPorches(b - 1)])]

\* The bounding boxes of the scene's direct children tagged 'wall', as
\* updateNewspapers filters them from scene.children.  createHouse adds each
\* wallCollision mesh to its block group, and the scene's direct children are
\* the lights, the player, the block groups and the newspaper meshes, none of
\* which carries userData.type = 'wall': the filter selects nothing.
SceneWalls == {}

---------------------------------------------------------------------------
(* Player                                                                  *)

\* Player constructor followed by Player.create
NewPlayer ==
    [x |-> 0, y |-> PlayerHeight, z |-> 0,
     vx |-> 0, vy |-> 0, vz |-> 0,
     canJump |-> TRUE, isJumping |-> FALSE,
     isInvincible |-> FALSE, invincibleTime |-> 0,
     heading |-> 0]

\* object.rotation.y = atan2(velocity.x, velocity.z), kept as the sign of its
\* sine: velocity.z is 0 or speed and velocity.x is 0 or +-speed, so the angle
\* is 0, pi/4 or -pi/4.
Heading(p) ==
    IF p.vx # 0 \/ p.vz # 0
    THEN (IF p.vx > 0 THEN 1 ELSE IF p.vx < 0 THEN -1 ELSE 0)
    ELSE p.heading

\* Player.update without the line that limits the player to the road area
\* (a faulty variant, against which C1 is tested).
ClampXMissing(x) == x

\* Player.update: limit the player to the road area.
ClampX(x) == Max(-RoadLimit, Min(RoadLimit, x))

\* The jump landing only once the player is below playerHeight (a faulty
\* variant, against which C15 is tested).
JumpLandsLate(p) ==
    IF p.isJumping
    THEN LET y1 == p.y + p.vy
             vy1 == p.vy - Gravity
         IN  IF y1 < PlayerHeight
             THEN [p EXCEPT !.y = PlayerHeight, !.isJumping = FALSE,
                            !.vy = 0, !.canJump = TRUE]
             ELSE [p EXCEPT !.y = y1, !.vy = vy1]
    ELSE p

\* Player.update: the jump.
Jump(p) ==
    IF p.isJumping
    THEN LET y1 == p.y + p.vy
             vy1 == p.vy - Gravity
         IN  IF y1 <= PlayerHeight
             THEN [p EXCEPT !.y = PlayerHeight, !.isJumping = FALSE,
                            !.vy = 0, !.canJump = TRUE]
             ELSE [p EXCEPT !.y = y1, !.vy = vy1]
    ELSE p

\* The invincibility timer ending at 2 s instead of after them (a faulty
\* variant, against which C8 is tested).
InvincibilityEndsEarly(p, deltaTime) ==
    IF p.isInvincible
    THEN LET t == p.invincibleTime + deltaTime
         IN  [p EXCEPT !.invincibleTime = t,
                       !.isInvincible = ~(t >= InvincibleDuration)]
    ELSE p

\* Player.update: the invincibility timer.
Invincibility(p, deltaTime) ==
    IF p.isInvincible
    THEN LET t == p.invincibleTime + deltaTime
         IN  [p EXCEPT !.invincibleTime = t,
                       !.isInvincible = ~(t > InvincibleDuration)]
    ELSE p

\* Player.update(deltaTime)
PlayerUpdate(p, deltaTime) ==
    LET moved == [p EXCEPT !.x = ClampX(p.x + p.vx), !.z = p.z + p.vz]
        jumped == Jump(moved)
        turned == [jumped EXCEPT !.heading = Heading(jumped)]
    IN  Invincibility(turned, deltaTime)

\* startJump without "this.canJump = false" (a faulty variant, against which
\* C24 is tested).
StartJumpKeepsCanJump(p) ==
    IF ~p.isJumping
    THEN [p EXCEPT !.isJumping = TRUE, !.vy = JumpSpeed]
    ELSE p

\* Player.startJump
StartJump(p) ==
    IF ~p.isJumping
    THEN [p EXCEPT !.isJumping = TRUE, !.vy = JumpSpeed, !.canJump = FALSE]
    ELSE p

\* Player.makeInvincible
MakeInvincible(p) == [p EXCEPT !.isInvincible = TRUE, !.invincibleTime = 0]

\* Player.reset without "this.velocity.set(0, 0, 0)" (a faulty variant,
\* against which C11 is tested).
PlayerResetKeepsVelocity(p) ==
    [p EXCEPT !.x = 0, !.y = PlayerHeight, !.z = 0,
              !.isJumping = FALSE, !.canJump = TRUE, !.isInvincible = FALSE]

\* Player.reset
PlayerReset(p) ==
    [p EXCEPT !.x = 0, !.y = PlayerHeight, !.z = 0,
              !.vx = 0, !.vy = 0, !.vz = 0,
              !.isJumping = FALSE, !.canJump = TRUE, !.isInvincible = FALSE]

---------------------------------------------------------------------------
(* Game: collisions                                                        *)

\* The collision test without the 0.7 tolerance factor (a faulty variant,
\* against which C7 is tested).
OverlapsFullBoxes(p, o) ==
    /\ 2 * Abs(p.x - o.x) < PlayerWidth + o.width
    /\ 2 * Abs(p.z - o.z) < PlayerDepth + o.depth

\* The test of checkObstacleCollisions (and of utils.checkCollision):
\* dx < (w1/2 + w2/2) * 0.7 and dz < (d1/2 + d2/2) * 0.7, with both sides
\* multiplied by 20.
Overlaps(p, o) ==
    /\ 20 * Abs(p.x - o.x) < 7 * (PlayerWidth + o.width)
    /\ 20 * Abs(p.z - o.z) < 7 * (PlayerDepth + o.depth)

\* checkObstacleCollisions without "Hills are not obstacles" (a faulty
\* variant, against which C20 is tested).
CollidesWithHills(p, obs) ==
    /\ ~p.isInvincible
    /\ \E i \in 1..Len(obs) : Overlaps(p, obs[i])

\* Game.checkObstacleCollisions: its return value.
Collides(p, obs) ==
    /\ ~p.isInvincible
    /\ \E i \in 1..Len(obs) : obs[i].type # "hill" /\ Overlaps(p, obs[i])

\* Game.isPlayerOnHill
IsPlayerOnHill(p, obs) ==
    \E i \in 1..Len(obs) :
        /\ obs[i].type = "hill"
        /\ 2 * Abs(p.x - obs[i].x) < obs[i].width
        /\ 2 * Abs(p.z - obs[i].z) < obs[i].depth

---------------------------------------------------------------------------
(* Game: newspapers                                                        *)

\* obstacles.createNewspaper
NewNewspaper(x, y, z, velocityX, velocityZ) ==
    [x |-> x, y |-> y, z |-> z,
     vx |-> velocityX, vy |-> PaperLift, vz |-> velocityZ,
     thrown |-> TRUE, delivered |-> FALSE]

\* Game.throwNewspaper: throwDirection * 0.5.  playerDirection is
\* (sin a, 0, cos a) for the rotation a, throwSide is -1 if sin a > 0 and 1
\* otherwise, throwDirection = (cos a * throwSide, 0, -sin a * throwSide).
ThrowVelocity(p) ==
    IF p.heading = 0 THEN [x |-> 500, z |-> 0]
    ELSE IF p.heading > 0 THEN [x |-> -354, z |-> 354]
    ELSE [x |-> 354, z |-> 354]

\* Game.throwNewspaper: the newspaper handed to createNewspaper.
ThrownNewspaper(p) ==
    LET v == ThrowVelocity(p)
    IN  NewNewspaper(p.x + v.x, p.y + 1000, p.z + v.z, v.x, v.z)

\* THREE.Box3.containsPoint
ContainsPoint(box, n) ==
    /\ box.minX <= n.x /\ n.x <= box.maxX
    /\ box.minY <= n.y /\ n.y <= box.maxY
    /\ box.minZ <= n.z /\ n.z <= box.maxZ

\* updateNewspapers moving a newspaper without "Apply gravity" (a faulty
\* variant, against which C28 is tested).
FlyWithoutGravity(n) ==
    [n EXCEPT !.x = n.x + n.vx, !.y = n.y + n.vy, !.z = n.z + n.vz]

\* updateNewspapers: gravity and motion of an airborne newspaper.
Fly(n) ==
    LET vy1 == n.vy - PaperGravity
    IN  [n EXCEPT !.vy = vy1, !.x = n.x + n.vx, !.y = n.y + vy1, !.z = n.z + n.vz]

\* updateNewspapers: the wall check (prev is the newspaper before the move).
HitWall(prev, n) ==
    IF \E w \in SceneWalls : ContainsPoint(w, n)
    THEN [n EXCEPT !.x = prev.x, !.y = prev.y, !.z = prev.z, !.thrown = FALSE]
    ELSE n

\* updateNewspapers: the mailbox test.
AtMailbox(n, mbs) ==
    \E i \in 1..Len(mbs) :
        /\ Abs(n.x - mbs[i].x) < MailboxReach
        /\ Abs(n.z - mbs[i].z) < MailboxReach
        /\ Abs(n.y - MailboxSlotY) < MailboxReachY

\* updateNewspapers: the porch test.
AtPorch(n, pcs) ==
    \E i \in 1..Len(pcs) :
        /\ Abs(n.x - pcs[i].x) < pcs[i].width
        /\ Abs(n.z - pcs[i].z) < pcs[i].length
        /\ n.y < PorchTopY

\* A delivery that stops the newspaper and sets neither flag (a faulty
\* variant, against which C22 is tested).
DeliverStaysThrown(n, y) == [n EXCEPT !.vx = 0, !.vy = 0, !.vz = 0, !.y = y]

\* A delivery that marks the newspaper delivered and leaves it flying (a
\* faulty variant, against which C3 is tested).
DeliverKeepsFlying(n, y) == [n EXCEPT !.delivered = TRUE, !.y = y]

\* updateNewspapers: what a delivery does to the newspaper.
Deliver(n, y) ==
    [n EXCEPT !.delivered = TRUE, !.thrown = FALSE,
              !.vx = 0, !.vy = 0, !.vz = 0, !.y = y]

\* updateNewspapers: the ground collision.
Ground(n) ==
    IF n.y <= GroundY
    THEN [n EXCEPT !.y = GroundY, !.thrown = FALSE, !.vx = 0, !.vy = 0, !.vz = 0]
    ELSE n

\* updateNewspapers: the body of the loop for one newspaper, up to the
\* removal test.  The result is the newspaper with the points it earned.
StepNewspaper(n, mbs, pcs) ==
    IF n.thrown /\ ~n.delivered
    THEN LET walled == HitWall(n, Fly(n))
             atBox == AtMailbox(walled, mbs)
             boxed == IF atBox THEN Deliver(walled, MailboxSlotY) ELSE walled
             atPorch == AtPorch(boxed, pcs)
             porched == IF atPorch THEN Deliver(boxed, PorchRestY) ELSE boxed
         IN  [paper |-> Ground(porched),
              points |-> (IF atBox THEN MailboxPoints ELSE 0)
                         + (IF atPorch THEN PorchPoints ELSE 0)]
    ELSE [paper |-> n, points |-> 0]

\* updateNewspapers: "Remove old undelivered papers".
Expired(n, time) == ~n.thrown /\ ~n.delivered /\ time > PaperTimeout

\* updateNewspapers applying gravity to every newspaper, before the test of
\* thrown and delivered (a faulty variant, against which C16 is tested).
UpdateNewspapersPullsAll(list, mbs, pcs, time) ==
    LET pulled == [i \in 1..Len(list) |->
                      IF list[i].thrown /\ ~list[i].delivered THEN list[i]
                      ELSE [list[i] EXCEPT !.vy = list[i].vy - PaperGravity]]
        stepped == [i \in 1..Len(list) |-> StepNewspaper(pulled[i], mbs, pcs)]
        kept == SelectSeq(stepped, LAMBDA r : ~Expired(r.paper, time))
    IN  [list |-> [i \in 1..Len(kept) |-> kept[i].paper],
         points |-> SumSeq([i \in 1..Len(stepped) |-> stepped[i].points])]

\* updateNewspapers: the list and the points after the loop.
UpdateNewspapers(list, mbs, pcs, time) ==
    LET stepped == [i \in 1..Len(list) |-> StepNewspaper(list[i], mbs, pcs)]
        kept == SelectSeq(stepped, LAMBDA r : ~Expired(r.paper, time))
    IN  [list |-> [i \in 1..Len(kept) |-> kept[i].paper],
         points |-> SumSeq([i \in 1..Len(stepped) |-> stepped[i].points])]

---------------------------------------------------------------------------
(* UI                                                                      *)

\* utils.getElementById: document.getElementById gives the element or null;
\* for null the function logs an error, and it returns what it was given.
GetElementById(elements, id) == IF id \in elements THEN id ELSE "null"

\* The UI constructor: eight lookups, then addEventListener on the start
\* button and on the restart button; a call on null raises a TypeError.
ConstructUI(elements) ==
    IF GetElementById(elements, "start-button") = "null" THEN "TypeError"
    ELSE IF GetElementById(elements, "restart-button") = "null" THEN "TypeError"
    ELSE "built"

---------------------------------------------------------------------------
(* The state after main.js has constructed and initialised the game, in a  *)
(* document that has every element.                                        *)

Init ==
    /\ isActive = FALSE
    /\ score = 0
    /\ papers = StartPapers
    /\ lives = StartLives
    /\ gameTime = 0
    /\ \E layout \in Layouts :
         LET w == GenerateWorld(layout)
         IN  /\ obstacles = w.obstacles
             /\ mailboxes = w.mailboxes
             /\ porches = w.porches
    /\ newspapers = <<>>
    /\ player = NewPlayer
    /\ keys = [k \in Keys |-> FALSE]
    /\ ui = [elements |-> ElementIds, built |-> ConstructUI(ElementIds),
             startScreen |-> TRUE, gameOverScreen |-> FALSE, finalScore |-> 0]

\* The state of Game.init before "Set up user interface", in a document that
\* has any of the elements.
UiInit ==
    /\ isActive = FALSE
    /\ score = 0
    /\ papers = StartPapers
    /\ lives = StartLives
    /\ gameTime = 0
    /\ \E layout \in Layouts :
         LET w == GenerateWorld(layout)
         IN  /\ obstacles = w.obstacles
             /\ mailboxes = w.mailboxes
             /\ porches = w.porches
    /\ newspapers = <<>>
    /\ player = NewPlayer
    /\ keys = [k \in Keys |-> FALSE]
    /\ \E elements \in SUBSET ElementIds :
         ui = [elements |-> elements, built |-> "pending",
               startScreen |-> TRUE, gameOverScreen |-> FALSE, finalScore |-> 0]

---------------------------------------------------------------------------
(* Operations                                                              *)

\* Game.init: "this.ui = new UI(this)".
NewUI ==
    /\ ui.built = "pending"
    /\ ui' = [ui EXCEPT !.built = ConstructUI(ui.elements)]
    /\ UNCHANGED <<isActive, score, papers, lives, gameTime, world, newspapers,
                   player, keys>>

\* Game.startGame, the click handler of the start button.  The button is
\* part of the start screen, which startGame hides and nothing shows again.
StartGame ==
    /\ ui.startScreen
    /\ isActive' = TRUE
    /\ ui' = [ui EXCEPT !.startScreen = FALSE]
    /\ score' = 0
    /\ papers' = StartPapers
    /\ lives' = StartLives
    /\ UNCHANGED <<gameTime, world, newspapers, player, keys>>

\* restartGame clearing only the undelivered newspapers (a faulty variant,
\* against which C26 is tested).
RestartGameKeepsDelivered ==
    /\ ui.gameOverScreen
    /\ player' = PlayerReset(player)
    /\ isActive' = TRUE
    /\ score' = 0
    /\ papers' = StartPapers
    /\ lives' = StartLives
    /\ gameTime' = 0
    /\ newspapers' = SelectSeq(newspapers, LAMBDA n : n.delivered)
    /\ ui' = [ui EXCEPT !.gameOverScreen = FALSE]
    /\ UNCHANGED <<world, keys>>

\* restartGame without "Clear newspapers" (a faulty variant, against which
\* C9 is tested).
RestartGameKeepsNewspapers ==
    /\ ui.gameOverScreen
    /\ player' = PlayerReset(player)
    /\ isActive' = TRUE
    /\ score' = 0
    /\ papers' = StartPapers
    /\ lives' = StartLives
    /\ gameTime' = 0
    /\ ui' = [ui EXCEPT !.gameOverScreen = FALSE]
    /\ UNCHANGED <<world, keys, newspapers>>

\* restartGame generating the obstacles of the world again (a faulty variant,
\* against which C10 is tested).
RestartGameRegenerates ==
    /\ ui.gameOverScreen
    /\ player' = PlayerReset(player)
    /\ isActive' = TRUE
    /\ score' = 0
    /\ papers' = StartPapers
    /\ lives' = StartLives
    /\ gameTime' = 0
    /\ newspapers' = <<>>
    /\ ui' = [ui EXCEPT !.gameOverScreen = FALSE]
    /\ obstacles' = obstacles \o obstacles
    /\ UNCHANGED <<mailboxes, porches, keys>>

\* Game.restartGame, the click handler of the restart button.  The button is
\* part of the game-over screen, shown by endGame and hidden by restartGame.
RestartGame ==
    /\ ui.gameOverScreen
    /\ player' = PlayerReset(player)
    /\ isActive' = TRUE
    /\ score' = 0
    /\ papers' = StartPapers
    /\ lives' = StartLives
    /\ gameTime' = 0
    /\ newspapers' = <<>>
    /\ ui' = [ui EXCEPT !.gameOverScreen = FALSE]
    /\ UNCHANGED <<world, keys>>

\* The jump without the test of isPlayerOnHill (a faulty variant, against
\* which C13 is tested).
JumpsAnywhere(key) ==
    /\ isActive
    /\ key \in {"ArrowUp", "w"}
    /\ player.canJump

\* The throw without the test of isActive (a faulty variant, against which
\* C12 is tested).
ThrowsWhenInactive(key) == key = " " /\ papers > 0

\* The throw without the tests of papers (a faulty variant, against which
\* C14 is tested).
ThrowsFromEmptyBag(key) == isActive /\ key = " "

\* handleSpecialKeyActions: "Jump when going over a hill".
Jumps(key) ==
    /\ isActive
    /\ key \in {"ArrowUp", "w"}
    /\ player.canJump
    /\ IsPlayerOnHill(player, obstacles)

\* handleSpecialKeyActions: "Throw newspaper with space bar", with the test
\* of createNewspaper.
Throws(key) == isActive /\ key = " " /\ papers > 0

\* handleSpecialKeyActions adding the jump bonus without the test of canJump
\* (a faulty variant, against which C27 is tested).
KeyDownBonusInTheAir(key) ==
    /\ key \in Keys
    /\ keys' = [keys EXCEPT ![key] = TRUE]
    /\ player' = IF Jumps(key) THEN StartJump(player) ELSE player
    /\ score' = IF /\ isActive
                   /\ key \in {"ArrowUp", "w"}
                   /\ IsPlayerOnHill(player, obstacles)
                THEN score + 20 ELSE score
    /\ papers' = IF Throws(key) THEN papers - 1 ELSE papers
    /\ newspapers' = IF Throws(key) THEN Append(newspapers, ThrownNewspaper(player))
                                    ELSE newspapers
    /\ UNCHANGED <<isActive, lives, gameTime, world, ui>>

\* Controls.handleKeyDown with handleSpecialKeyActions
KeyDown(key) ==
    /\ key \in Keys
    /\ keys' = [keys EXCEPT ![key] = TRUE]
    /\ player' = IF Jumps(key) THEN StartJump(player) ELSE player
    /\ score' = IF Jumps(key) THEN score + 20 ELSE score
    /\ papers' = IF Throws(key) THEN papers - 1 ELSE papers
    /\ newspapers' = IF Throws(key) THEN Append(newspapers, ThrownNewspaper(player))
                                    ELSE newspapers
    /\ UNCHANGED <<isActive, lives, gameTime, world, ui>>

\* Controls.handleKeyUp
KeyUp(key) ==
    /\ key \in Keys
    /\ keys' = [keys EXCEPT ![key] = FALSE]
    /\ UNCHANGED <<isActive, score, papers, lives, gameTime, world, newspapers,
                   player, ui>>

\* Controls.update with its two tests in the other order, so that the left
\* keys win over the right keys (a faulty variant, against which C19 is
\* tested).
SteerLeftWins(p, held) ==
    [p EXCEPT !.vz = PlayerSpeed,
              !.vx = IF held["ArrowLeft"] \/ held["a"] THEN PlayerSpeed
                     ELSE IF held["ArrowRight"] \/ held["d"] THEN -PlayerSpeed
                     ELSE 0]

\* Controls.update: the velocity it gives the player for the keys held.
Steer(p, held) ==
    [p EXCEPT !.vz = PlayerSpeed,
              !.vx = IF held["ArrowRight"] \/ held["d"] THEN -PlayerSpeed
                     ELSE IF held["ArrowLeft"] \/ held["a"] THEN PlayerSpeed
                     ELSE 0]

\* Controls.update, the 16 ms interval timer
ControlsUpdate ==
    /\ player' = IF isActive THEN Steer(player, keys) ELSE player
    /\ UNCHANGED <<isActive, score, papers, lives, gameTime, world, newspapers,
                   keys, ui>>

\* checkObstacleCollisions without "Check game over" (a faulty variant,
\* against which C25 is tested).
LivesExhaustedNever(l) == FALSE

\* "Check game over" testing for fewer than no lives (a faulty variant,
\* against which C2 is tested).
LivesBelowZero(l) == l < 0

\* checkObstacleCollisions: "Check game over".
LivesExhausted(l) == l <= 0

\* animate: "End game if out of papers and no newspapers left".
OutOfPapers(p, list, l) == p <= 0 /\ Len(list) = 0 /\ l > 0

\* animate calling Player.update also in a frame with a hit (a faulty
\* variant, against which C21 is tested).
AnimateMovesOnHit(deltaTime) ==
    IF isActive
    THEN LET hit == Collides(player, obstacles)
             lives1 == IF hit THEN lives - 1 ELSE lives
             score1 == IF hit THEN score - HitPenalty ELSE score
             over1 == hit /\ LivesExhausted(lives1)
             news == UpdateNewspapers(newspapers, mailboxes, porches,
                                      gameTime + deltaTime)
             over2 == OutOfPapers(papers, news.list, lives1)
         IN  /\ gameTime' = gameTime + deltaTime
             /\ player' = IF hit
                          THEN PlayerUpdate(MakeInvincible(player), deltaTime)
                          ELSE PlayerUpdate(player, deltaTime)
             /\ lives' = lives1
             /\ newspapers' = news.list
             /\ score' = score1 + news.points
             /\ isActive' = ~(over1 \/ over2)
             /\ ui' = IF over1 \/ over2
                      THEN [ui EXCEPT !.gameOverScreen = TRUE,
                                      !.finalScore = IF over1 THEN score1
                                                     ELSE score1 + news.points]
                      ELSE ui
             /\ UNCHANGED <<papers, world, keys>>
    ELSE UNCHANGED vars

\* Game.animate, one animation frame with clock.getDelta() = deltaTime.
\* checkObstacleCollisions applies the hit (and may end the game), then the
\* rest of the frame runs whatever it did: Player.update if there was no hit,
\* updateNewspapers, and the out-of-papers test.
Animate(deltaTime) ==
    IF isActive
    THEN LET hit == Collides(player, obstacles)
             lives1 == IF hit THEN lives - 1 ELSE lives
             score1 == IF hit THEN score - HitPenalty ELSE score
             over1 == hit /\ LivesExhausted(lives1)
             news == UpdateNewspapers(newspapers, mailboxes, porches,
                                      gameTime + deltaTime)
             over2 == OutOfPapers(papers, news.list, lives1)
         IN  /\ gameTime' = gameTime + deltaTime
             /\ player' = IF hit THEN MakeInvincible(player)
                                 ELSE PlayerUpdate(player, deltaTime)
             /\ lives' = lives1
             /\ newspapers' = news.list
             /\ score' = score1 + news.points
             /\ isActive' = ~(over1 \/ over2)
             /\ ui' = IF over1 \/ over2
                      THEN [ui EXCEPT !.gameOverScreen = TRUE,
                                      !.finalScore = IF over1 THEN score1
                                                     ELSE score1 + news.points]
                      ELSE ui
             /\ UNCHANGED <<papers, world, keys>>
    ELSE UNCHANGED vars

---------------------------------------------------------------------------
(* Specifications                                                          *)

(* Each specification runs the whole program from Init and bounds what the  *)
(* player and the browser do: which keys are pressed and when, the frame    *)
(* times clock.getDelta() returns, and how long the game is followed.       *)

\* Short rides with free steering: frames of 1 s or 3 s, up to MaxTime.
Next ==
    \/ StartGame
    \/ RestartGame
    \/ \E key \in {"ArrowLeft", "ArrowRight"} : KeyDown(key)
    \/ \E key \in {"ArrowLeft", "ArrowRight"} : KeyUp(key)
    \/ ControlsUpdate
    \/ \E deltaTime \in {10, 30} :
           gameTime + deltaTime <= MaxTime /\ Animate(deltaTime)

Spec == Init /\ [][Next]_vars

\* Long rides: the steering keys change only before the controls timer first
\* fires in a game, the timer fires before the first frame, frames of 1 s, up
\* to MaxRideTime.
RideNext ==
    \/ StartGame
    \/ RestartGame
    \/ \E key \in {"ArrowLeft", "d"} : player.vz = 0 /\ KeyDown(key)
    \/ \E key \in {"ArrowLeft", "d"} : player.vz = 0 /\ KeyUp(key)
    \/ ControlsUpdate
    \/ player.vz # 0 /\ gameTime + 10 <= MaxRideTime /\ Animate(10)

RideSpec == Init /\ [][RideNext]_vars

\* Deliveries: the player rides straight on and throws while fewer than
\* MaxListed newspapers are listed; the controls timer fires before the first
\* frame of a game, frames of 0.4 s, up to MaxFlightTime.
DeliveryNext ==
    \/ StartGame
    \/ RestartGame
    \/ Len(newspapers) < MaxListed /\ KeyDown(" ")
    \/ KeyUp(" ")
    \/ ControlsUpdate
    \/ player.vz # 0 /\ gameTime + 4 <= MaxFlightTime /\ Animate(4)

DeliverySpec == Init /\ [][DeliveryNext]_vars

\* The whole bag: the player rides straight on and throws any number of
\* newspapers before the first frame of a game and none after it; the
\* controls timer fires before the first frame, frames of 0.4 s, up to
\* MaxBurstTime.
BurstNext ==
    \/ StartGame
    \/ RestartGame
    \/ gameTime = 0 /\ KeyDown(" ")
    \/ gameTime = 0 /\ KeyUp(" ")
    \/ ControlsUpdate
    \/ player.vz # 0 /\ gameTime + 4 <= MaxBurstTime /\ Animate(4)

BurstSpec == Init /\ [][BurstNext]_vars

\* The park: the player rides straight on, through three blocks of houses and
\* over the hills of the first park, and presses and releases the jump keys
\* at any time; the controls timer fires before the first frame of a game,
\* frames of 0.1 s, up to MaxHillTime.
HillNext ==
    \/ StartGame
    \/ RestartGame
    \/ \E key \in {"ArrowUp", "w"} : KeyDown(key)
    \/ \E key \in {"ArrowUp", "w"} : KeyUp(key)
    \/ ControlsUpdate
    \/ player.vz # 0 /\ gameTime + 1 <= MaxHillTime /\ Animate(1)

HillSpec == Init /\ [][HillNext]_vars

\* A whole game: the player rides straight on, may throw one newspaper at
\* the start or after four frames, and presses and releases the jump key at
\* any time, through the houses and over the hills of the first park; the
\* controls timer fires before the first frame of a game, frames of 0.1 s, up
\* to MaxHillTime.
TourNext ==
    \/ StartGame
    \/ RestartGame
    \/ newspapers = << >> /\ gameTime \in {0, 4} /\ KeyDown(" ")
    \/ KeyDown("ArrowUp")
    \/ KeyUp("ArrowUp")
    \/ ControlsUpdate
    \/ player.vz # 0 /\ gameTime + 1 <= MaxHillTime /\ Animate(1)

TourSpec == Init /\ [][TourNext]_vars

\* Construction of the UI in every document: the one step of Game.init that
\* depends on the elements present.
UiNext == NewUI

UiSpec == UiInit /\ [][UiNext]_vars

---------------------------------------------------------------------------
(* Properties                                                              *)

\* A step is an animation frame of an active game exactly if it advances
\* gameTime: restartGame is the only other writer, and sets it to 0.
Frame == gameTime' > gameTime

\* The newspapers of a list that lie delivered at height y.
DeliveredAt(list, y) ==
    Cardinality({i \in 1..Len(list) : list[i].delivered /\ list[i].y = y})

\* The newspapers that a step delivers at height y.  No operation removes a
\* delivered newspaper, so the difference of the two counts is their number.
NewlyDeliveredAt(y) == DeliveredAt(newspapers', y) - DeliveredAt(newspapers, y)

\* The points a step awards for deliveries: 20 for each newspaper it puts in
\* a mailbox (at height 1.2), 10 for each it puts on a porch (at height 0.2).
Awarded == 20 * NewlyDeliveredAt(1200) + 10 * NewlyDeliveredAt(200)

\* |dx| < 0.7 (playerWidth/2 + obstacleWidth/2) and
\* |dz| < 0.7 (playerDepth/2 + obstacleDepth/2), both sides times 10.
WithinTolerance(p, o) ==
    /\ 10 * Abs(p.x - o.x) < 7 * (1000 \div 2 + o.width \div 2)
    /\ 10 * Abs(p.z - o.z) < 7 * (1500 \div 2 + o.depth \div 2)

\* The obstacles, other than hills, that the player is within tolerance of.
Touching ==
    {i \in 1..Len(obstacles) :
        obstacles[i].type # "hill" /\ WithinTolerance(player, obstacles[i])}

\* C1: in every reachable state the player's x position lies in [-15, 15].
C1_PlayerStaysOnRoad == -15000 <= player.x /\ player.x <= 15000

\* C1, its case: the player has steered into the edge of the road and a
\* further frame has kept them on it.
C1_AtRoadEdge == player.x = 15000 /\ player.vx > 0 /\ player.z > 15000

\* C2: lives <= 0 implies that the game is not active, and lives is never
\* below 0: the collision that takes the last life ends the game in its step.
C2_NoLivesNoGame == (lives <= 0 => ~isActive) /\ lives >= 0

\* C2, its case: the third collision has taken the last life.
C2_LastLifeLost == lives = 0 /\ ~isActive /\ ui.gameOverScreen /\ score = -15

\* C3: a frame raises the score by exactly 20 for each newspaper it delivers
\* at a mailbox and by exactly 10 for each it delivers at a porch (less the 5
\* of a collision in the same frame), and a delivered newspaper is no longer
\* thrown, has zero velocity, and lies in a mailbox or on a porch.
C3_DeliveryAward ==
    [][Frame =>
        /\ score' = score + Awarded - (IF lives' < lives THEN 5 ELSE 0)
        /\ \A i \in 1..Len(newspapers') :
             LET n == newspapers'[i]
             IN  n.delivered =>
                   /\ ~n.thrown
                   /\ n.vx = 0 /\ n.vy = 0 /\ n.vz = 0
                   /\ \/ /\ n.y = 1200
                         /\ \E j \in 1..Len(mailboxes) :
                              /\ Abs(n.x - mailboxes[j].x) < 750
                              /\ Abs(n.z - mailboxes[j].z) < 750
                      \/ /\ n.y = 200
                         /\ \E j \in 1..Len(porches) :
                              /\ Abs(n.x - porches[j].x) < porches[j].width
                              /\ Abs(n.z - porches[j].z) < porches[j].length
       ]_vars

\* C3, its case: the one newspaper thrown so far lies in a mailbox and has
\* earned its 20 points.
C3_MailboxDelivery ==
    /\ score = 20
    /\ Len(newspapers) = 1
    /\ newspapers[1].delivered
    /\ newspapers[1].y = 1200

\* C4: a frame that starts with no papers left and every listed newspaper
\* delivered (none in flight, none waiting on the ground), and that leaves
\* the player a life, ends the game.
C4_GameEndsWhenBagEmpty ==
    [][(/\ Frame
        /\ papers = 0
        /\ lives' > 0
        /\ \A i \in 1..Len(newspapers) : newspapers[i].delivered)
       => ~isActive']_vars

\* C5: after the frame that delivers a newspaper, the newspaper is no longer
\* in the newspapers list: the list never holds a delivered newspaper.
C5_DeliveredLeavesList ==
    \A i \in 1..Len(newspapers) : ~newspapers[i].delivered

\* C6: a newspaper that grounds undelivered stays in the list until its own
\* 30 units have passed, so the frame in which it grounds does not remove it:
\* every newspaper that is airborne or delivered when a frame starts is in
\* the list when the frame ends.
C6_GroundedWaitsItsTimeout ==
    [][Frame =>
        Len(newspapers') >=
            Cardinality({i \in 1..Len(newspapers) :
                            newspapers[i].thrown \/ newspapers[i].delivered})
       ]_vars

\* C7: a frame flags a hit exactly if the player is not invincible and is
\* within the 0.7 tolerance of some obstacle that is no hill; a hit takes
\* exactly 1 life and exactly 5 points and makes the player invincible, also
\* if several obstacles overlap the player; no other frame takes a life or
\* points.
C7_HitRule ==
    [][Frame =>
        IF ~player.isInvincible /\ Touching # {}
        THEN /\ lives' = lives - 1
             /\ score' = score - 5 + Awarded
             /\ player'.isInvincible
        ELSE /\ lives' = lives
             /\ score' = score + Awarded
       ]_vars

\* C7, its case: the first frame found the player within tolerance of two
\* obstacles and applied one hit.
C7_OneHitForTwoObstacles ==
    /\ Cardinality(Touching) >= 2
    /\ lives = 2
    /\ score = -5
    /\ player.isInvincible
    /\ player.invincibleTime = 0

\* C8: a frame that finds the player invincible takes no life and no points
\* and adds its elapsed time to the time since the hit, which a hit sets to 0;
\* the player stays invincible exactly while that time is at most 2, and a
\* frame that finds the player no longer invincible and within tolerance of
\* an obstacle counts the collision.
C8_InvincibilityTimeBoxed ==
    [][Frame =>
        /\ player.isInvincible =>
             /\ lives' = lives
             /\ score' >= score
             /\ player'.invincibleTime
                  = player.invincibleTime + (gameTime' - gameTime)
             /\ player'.isInvincible <=> player'.invincibleTime <= 20
        /\ lives' < lives =>
             /\ player'.isInvincible
             /\ player'.invincibleTime = 0
        /\ (~player.isInvincible /\ Touching # {}) => lives' = lives - 1
       ]_vars

\* C8, its case: the invincibility of the first hit has run out and a second
\* collision has counted.
C8_SecondHitCounts ==
    /\ lives = 1
    /\ isActive
    /\ player.isInvincible
    /\ player.invincibleTime = 0

\* C9, as stated: the length of the newspapers list is at most the remaining
\* papers count.
C9_ListWithinRemaining == Len(newspapers) <= papers

\* C9, amended: the length of the newspapers list is at most the number of
\* papers thrown since the game was started or restarted, 100 - papers.
C9_ListWithinThrown == Len(newspapers) <= 100 - papers

\* C9, its case: more newspapers are listed than papers remain, up to the
\* whole bag.
C9_WholeBagListed == papers = 0 /\ Len(newspapers) = 100

Restarted == ui.gameOverScreen /\ ~ui'.gameOverScreen

\* A frame ran Player.update exactly if it applied no hit.
Updated == Frame /\ lives' = lives

\* The player's x and z lie within half the width and half the depth of a
\* hill.
OverHill ==
    \E i \in 1..Len(obstacles) :
        /\ obstacles[i].type = "hill"
        /\ 2 * Abs(player.x - obstacles[i].x) < obstacles[i].width
        /\ 2 * Abs(player.z - obstacles[i].z) < obstacles[i].depth

C12_InactiveGameFrozen ==
    [][(~isActive /\ ~isActive') =>
        UNCHANGED <<score, lives, papers, gameTime, player, newspapers>>
      ]_vars

\* C12, its case: the game is over and the space bar is down, with the bag
\* as full and the list as empty as the last restart left them.
C12_SpaceAfterGameOver ==
    /\ ~isActive
    /\ ui.gameOverScreen
    /\ ui.finalScore = -15
    /\ keys[" "]
    /\ papers = 100
    /\ newspapers = << >>

\* C13: a key-down of ArrowUp or w adds exactly 20 to the score and starts a
\* jump if the game is active, the player can jump and is over a hill, and
\* otherwise changes neither the score nor the player.
C13_JumpBonusOnHillOnly ==
    [][(\E key \in {"ArrowUp", "w"} : KeyDown(key)) =>
        IF isActive /\ player.canJump /\ OverHill
        THEN /\ score' = score + 20
             /\ player'.isJumping /\ ~player'.canJump /\ player'.vy = 200
             /\ player' = [player EXCEPT !.isJumping = TRUE, !.canJump = FALSE,
                                         !.vy = 200]
        ELSE /\ score' = score
             /\ player' = player
       ]_vars

\* C13, its case: the key-down over the first hill has started a jump and
\* added the bonus.
C13_JumpStarted ==
    /\ score = 20
    /\ player.isJumping
    /\ player.vy = 200
    /\ player.y = 1000
    /\ OverHill

\* C14: a key-down of the space bar takes exactly one paper and appends
\* exactly one newspaper, thrown and not delivered, if the game is active and
\* papers > 0, and otherwise changes neither papers nor the list; papers is
\* never below 0.
C14_ThrowTakesOnePaper ==
    [][/\ papers' >= 0
       /\ KeyDown(" ") =>
            IF isActive /\ papers > 0
            THEN /\ papers' = papers - 1
                 /\ Len(newspapers') = Len(newspapers) + 1
                 /\ SubSeq(newspapers', 1, Len(newspapers)) = newspapers
                 /\ newspapers'[Len(newspapers')].thrown
                 /\ ~newspapers'[Len(newspapers')].delivered
            ELSE /\ papers' = papers
                 /\ newspapers' = newspapers
      ]_vars

\* C14, its case: the last paper has just been thrown, before any frame.
C14_LastPaperThrown ==
    /\ isActive
    /\ papers = 0
    /\ gameTime = 0
    /\ keys[" "]
    /\ Len(newspapers) = 100
    /\ \A i \in 1..Len(newspapers) :
         newspapers[i].thrown /\ ~newspapers[i].delivered

\* C15: the player's y is never below playerHeight; during a jump the
\* vertical velocity stays within [-0.2, 0.2], and each player update either
\* adds the velocity to y and lowers the velocity by 0.01, or, when that
\* would bring y to playerHeight or below, ends the jump with y at
\* playerHeight, velocity 0, isJumping false and canJump true.  The velocity
\* falls with every update and is bounded below, so a jump ends within 41
\* updates.
C15_JumpIntegration ==
    [][/\ player'.y >= 1000
       /\ player'.isJumping => (-200 <= player'.vy /\ player'.vy <= 200)
       /\ (Updated /\ player.isJumping) =>
            IF player.y + player.vy <= 1000
            THEN /\ player'.y = 1000 /\ player'.vy = 0
                 /\ ~player'.isJumping /\ player'.canJump
            ELSE /\ player'.y = player.y + player.vy
                 /\ player'.vy = player.vy - 10
                 /\ player'.isJumping
      ]_vars

\* C15, its case: a jump has been made and has ended.
C15_Landed ==
    /\ isActive
    /\ score = 20
    /\ ~player.isJumping /\ player.canJump
    /\ player.y = 1000 /\ player.vy = 0

\* The newspaper is thrown and not delivered.
Airborne(n) == n.thrown /\ ~n.delivered

\* The list after is the list before with some undelivered newspapers taken
\* out and with changes to none but airborne newspapers.
RECURSIVE OnlyAirborneChanged(_, _)
OnlyAirborneChanged(before, after) ==
    IF before = << >> THEN after = << >>
    ELSE \/ /\ after # << >>
            /\ Airborne(Head(before)) \/ Head(after) = Head(before)
            /\ OnlyAirborneChanged(Tail(before), Tail(after))
         \/ /\ ~Head(before).delivered
            /\ OnlyAirborneChanged(Tail(before), after)

\* C16: a frame changes the position, velocity, thrown flag or delivered flag
\* of a newspaper only if the newspaper is thrown and not delivered when the
\* frame starts; every other newspaper is unchanged in the list or removed
\* from it.
C16_OnlyAirborneMutated ==
    [][Frame => OnlyAirborneChanged(newspapers, newspapers')]_vars

\* C16, its case: a newspaper has grounded undelivered and has lain in the
\* list through six further frames.
C16_GroundedLiesStill ==
    /\ Len(newspapers) = 1
    /\ ~newspapers[1].thrown /\ ~newspapers[1].delivered
    /\ newspapers[1].y = 50
    /\ player.z >= newspapers[1].z + 4000

\* C17: constructing the UI completes without raising an error, whichever of
\* its eight elements are missing.
C17_MissingElementTolerated == ui.built # "TypeError"

\* C18, as stated: the obstacles, mailboxes and porches lists each have the
\* same length for every outcome of the random choices of generateWorld.
C18_FixedSizeWorld ==
    \A layout \in Layouts :
        /\ Len(GenerateWorld(layout).obstacles) = Len(obstacles)
        /\ Len(GenerateWorld(layout).mailboxes) = Len(mailboxes)
        /\ Len(GenerateWorld(layout).porches) = Len(porches)

\* C18, amended: the mailboxes and porches lists each have the same length
\* for every outcome of the random choices of generateWorld.
C18_FixedSizeDeliveryLists ==
    \A layout \in Layouts :
        /\ Len(GenerateWorld(layout).mailboxes) = Len(mailboxes)
        /\ Len(GenerateWorld(layout).porches) = Len(porches)

\* C18, its case: another outcome of the random choices gives as many
\* mailboxes and porches and a different number of obstacles.
C18_OtherObstacleCount ==
    /\ Len(mailboxes) > 0 /\ Len(porches) > 0
    /\ \E layout \in Layouts :
         /\ Len(GenerateWorld(layout).obstacles) # Len(obstacles)
         /\ Len(GenerateWorld(layout).mailboxes) = Len(mailboxes)
         /\ Len(GenerateWorld(layout).porches) = Len(porches)

\* The lateral velocity a control tick sets for the keys held.
Lateral ==
    IF keys["ArrowRight"] \/ keys["d"] THEN -100
    ELSE IF keys["ArrowLeft"] \/ keys["a"] THEN 100
    ELSE 0

\* C19: a control tick of an active game sets the player's velocity z to
\* speed and velocity x to -speed if ArrowRight or d is held, else to +speed
\* if ArrowLeft or a is held, else to 0; it writes nothing else, and a second
\* tick with the same keys held changes nothing.
C19_TickWritesVelocityOnly ==
    [][ControlsUpdate =>
        /\ UNCHANGED <<isActive, score, papers, lives, gameTime, obstacles,
                       mailboxes, porches, newspapers, keys, ui>>
        /\ player' = IF isActive
                     THEN [player EXCEPT !.vz = 100, !.vx = Lateral]
                     ELSE player
        /\ isActive => [player' EXCEPT !.vz = 100, !.vx = Lateral] = player'
       ]_vars

\* C19, its case: with a left and a right key held, a tick has steered the
\* player in the direction of the right key, and frames have moved them.
C19_RightKeyWins ==
    /\ isActive
    /\ keys["ArrowLeft"] /\ keys["ArrowRight"]
    /\ player.vx = -100 /\ player.vz = 100
    /\ player.x < 0

\* C20: a frame that finds no obstacle other than hills within tolerance of
\* the player takes no life and no points and does not make the player
\* invincible, wherever the player is and whether or not they are jumping.
C20_HillsAreNotObstacles ==
    [][(Frame /\ Touching = {}) =>
        /\ lives' = lives
        /\ score' >= score
        /\ player'.isInvincible => player.isInvincible
       ]_vars

\* C20, its case: the player has ridden onto a hill, within tolerance of it,
\* and still has every life and no penalty.
C20_RidingOverHill ==
    /\ isActive
    /\ lives = 3 /\ score >= 0
    /\ ~player.isInvincible
    /\ \E i \in 1..Len(obstacles) :
         /\ obstacles[i].type = "hill"
         /\ WithinTolerance(player, obstacles[i])
         /\ player.z > obstacles[i].z

\* C21: a frame that flags a hit leaves the player's position, vertical
\* velocity and jump state as they were and sets the invincibility time to 0
\* instead of advancing it; every other frame of an active game runs
\* Player.update once: it moves the player by the velocity (x limited to the
\* road), advances a jump by one step, and advances the invincibility time of
\* an invincible player by the frame's elapsed time.
C21_UpdateOnlyWithoutHit ==
    [][Frame =>
        IF lives' < lives
        THEN /\ player'.x = player.x /\ player'.y = player.y
             /\ player'.z = player.z
             /\ player'.vx = player.vx /\ player'.vy = player.vy
             /\ player'.vz = player.vz
             /\ player'.isJumping = player.isJumping
             /\ player'.canJump = player.canJump
             /\ player'.invincibleTime = 0
        ELSE /\ player'.x = Max(-15000, Min(15000, player.x + player.vx))
             /\ player'.z = player.z + player.vz
             /\ player.isJumping =>
                  \/ player'.y = player.y + player.vy /\ player'.isJumping
                  \/ player'.y = 1000 /\ ~player'.isJumping
             /\ ~player.isJumping => (player'.y = player.y /\ ~player'.isJumping)
             /\ player.isInvincible =>
                  player'.invincibleTime
                    = player.invincibleTime + (gameTime' - gameTime)
       ]_vars

\* C21, its case: a hit in mid-jump has left the player in the air, where
\* the jump stood when the frame began.
C21_HitInMidJump ==
    /\ isActive
    /\ lives < 3
    /\ player.isInvincible /\ player.invincibleTime = 0
    /\ player.isJumping
    /\ player.y > 1000

\* The delivered newspapers of a list, in the order of the list.
Delivered(list) == SelectSeq(list, LAMBDA n : n.delivered)

\* The elements of s occur in t, in the order of s.
RECURSIVE IsSubsequence(_, _)
IsSubsequence(s, t) ==
    IF s = << >> THEN TRUE
    ELSE IF t = << >> THEN FALSE
    ELSE IF Head(s) = Head(t) THEN IsSubsequence(Tail(s), Tail(t))
    ELSE IsSubsequence(s, Tail(t))

\* C22: a frame awards each listed newspaper nothing, 10 points or 20
\* points, never both awards, and nothing to a delivered newspaper; the
\* points of a frame are those of the newspapers it newly delivers, each of
\* which then lies at one of the two resting heights; and the newspapers
\* delivered before the frame are in the list after it, unchanged, so none
\* of them is delivered or scored a second time.
C22_AwardedOnce ==
    [][Frame =>
        /\ \A i \in 1..Len(newspapers) :
             LET step == StepNewspaper(newspapers[i], mailboxes, porches)
             IN  /\ step.points \in {0, 10, 20}
                 /\ newspapers[i].delivered =>
                      (step.points = 0 /\ step.paper = newspapers[i])
                 /\ step.points > 0 =>
                      (step.paper.delivered /\ ~step.paper.thrown)
        /\ IsSubsequence(Delivered(newspapers), Delivered(newspapers'))
        /\ NewlyDeliveredAt(1200) + NewlyDeliveredAt(200)
             = Len(Delivered(newspapers')) - Len(Delivered(newspapers))
        /\ score' + 5 * (lives - lives') - score
             = 20 * NewlyDeliveredAt(1200) + 10 * NewlyDeliveredAt(200)
       ]_vars

\* C22, its case: a newspaper lies in a mailbox that stands within the width
\* and length of a porch, frames have passed since its delivery, and it has
\* earned the 20 points of the mailbox and no more.
C22_InMailboxByPorch ==
    /\ isActive
    /\ score = 20 /\ lives = 3
    /\ Len(newspapers) = 1
    /\ newspapers[1].delivered /\ newspapers[1].y = 1200
    /\ \E j \in 1..Len(porches) :
         /\ Abs(newspapers[1].x - porches[j].x) < porches[j].width
         /\ Abs(newspapers[1].z - porches[j].z) < porches[j].length
    /\ player.z >= newspapers[1].z + 3000

\* C23: while the game-over screen is shown, the final score written on it is
\* the score of the game.
C23_FinalScoreIsScore == ui.gameOverScreen => ui.finalScore = score

\* C24: canJump is true exactly when isJumping is false, before and after
\* every step; and a key-down that adds the jump bonus finds the player on
\* the ground and leaves them jumping.
C24_CanJumpIffGrounded ==
    [][/\ player.canJump <=> ~player.isJumping
       /\ player'.canJump <=> ~player'.isJumping
       /\ (~Frame /\ score' = score + 20) =>
            (~player.isJumping /\ player'.isJumping /\ player'.vy = 200)
      ]_vars

\* C24, its case: the player is in the air after a second jump and cannot
\* jump.
C24_Airborne ==
    /\ isActive
    /\ score >= 40
    /\ player.isJumping /\ ~player.canJump
    /\ player.y > 1000
    /\ OverHill

\* C25: papers is between 0 and 100, lives is between 0 and 3, and while the
\* game is active lives is at least 1.
C25_CountersInRange ==
    /\ 0 <= papers /\ papers <= 100
    /\ 0 <= lives /\ lives <= 3
    /\ isActive => lives >= 1

\* C25, its case: the whole bag has been thrown and the last life lost.
C25_BagAndLivesSpent ==
    /\ papers = 0
    /\ lives = 0
    /\ ~isActive
    /\ ui.gameOverScreen

\* C26: papers plus the length of the newspapers list is at most 100.
C26_PapersPlusListed == papers + Len(newspapers) <= 100

\* C26, its case: a newspaper has been removed from the list after its
\* timeout and another thrown, so that the list holds fewer newspapers than
\* were thrown.
C26_FewerListedThanThrown ==
    /\ isActive
    /\ papers = 98
    /\ Len(newspapers) = 1
    /\ newspapers[1].thrown

\* A step is startGame exactly if it hides the start screen.
Started == ui.startScreen /\ ~ui'.startScreen

\* A step starts a jump exactly if it finds the player not jumping and leaves
\* them jumping.
JumpStarted == ~player.isJumping /\ player'.isJumping

\* C27: startGame and restartGame set the score to 0 and the lives to 3;
\* every other step changes the score by 20 for each newspaper it puts in a
\* mailbox, 10 for each it puts on a porch, 20 if it starts a jump and -5 for
\* the hit it applies, and takes one life for the hit and none otherwise.  So
\* the score is the sum of these since the last start or restart and lives is
\* 3 less the hits.
C27_ScoreLedger ==
    [][IF Started \/ Restarted
       THEN score' = 0 /\ lives' = 3
       ELSE /\ lives - lives' \in {0, 1}
            /\ lives' < lives => Frame
            /\ score' = score + 20 * NewlyDeliveredAt(1200)
                              + 10 * NewlyDeliveredAt(200)
                              + 20 * (IF JumpStarted THEN 1 ELSE 0)
                              - 5 * (lives - lives')
      ]_vars

\* C27, its case: a game with a newspaper in a mailbox, a hit, and a jump
\* bonus in the score.
C27_DeliveryHitAndJump ==
    /\ isActive
    /\ lives < 3
    /\ Len(newspapers) = 1
    /\ newspapers[1].delivered /\ newspapers[1].y = 1200
    /\ score >= 20 + 20 - 5 * (3 - lives)

\* The list after a frame, against the list before it: a newspaper that was
\* airborne is removed, or is no longer thrown (delivered, or stopped by a
\* wall where it was, or grounded at y = 0.05 with zero velocity), or is
\* airborne still, above the ground, with its vertical velocity lower by
\* 0.015; any other newspaper is removed or kept.
RECURSIVE AirborneFall(_, _)
AirborneFall(before, after) ==
    IF before = << >> THEN after = << >>
    ELSE LET n == Head(before)
         IN  \/ AirborneFall(Tail(before), after)
             \/ /\ after # << >>
                /\ AirborneFall(Tail(before), Tail(after))
                /\ LET m == Head(after)
                   IN  IF Airborne(n)
                       THEN \/ /\ Airborne(m)
                               /\ m.vy = n.vy - 15
                               /\ m.y = n.y + m.vy
                               /\ m.y > 50
                            \/ /\ ~m.thrown
                               /\ \/ m.delivered
                                  \/ m.x = n.x /\ m.y = n.y /\ m.z = n.z
                                  \/ /\ m.y = 50
                                     /\ m.vx = 0 /\ m.vy = 0 /\ m.vz = 0
                       ELSE m = n

\* C28: the vertical velocity of an airborne newspaper is 0.2 less 0.015 for
\* each frame of its flight and never below -0.295, so a flight from the
\* height of a rider on the ground has at most 33 airborne frames; each frame
\* of an active game lowers the velocity of every airborne newspaper by
\* 0.015 or ends its flight.
C28_FlightEnds ==
    [][/\ \A i \in 1..Len(newspapers) :
            Airborne(newspapers[i]) =>
              /\ newspapers[i].vy <= 200
              /\ newspapers[i].vy >= -295
              /\ (200 - newspapers[i].vy) % 15 = 0
              /\ newspapers[i].y > 50
       /\ Len(newspapers') = Len(newspapers) + 1 =>
            newspapers'[Len(newspapers')].vy = 200
       /\ Frame => AirborneFall(newspapers, newspapers')
      ]_vars

\* C28, its case: a newspaper has flown its 33 frames and the 34th has
\* grounded it at y = 0.05 with zero velocity.
C28_JustGrounded ==
    /\ isActive
    /\ Len(newspapers) = 1
    /\ ~newspapers[1].thrown /\ ~newspapers[1].delivered
    /\ newspapers[1].y = 50
    /\ newspapers[1].vx = 0 /\ newspapers[1].vy = 0 /\ newspapers[1].vz = 0
    /\ player.z <= newspapers[1].z + 3400

=============================================================================
